---- MODULE Spec2Model ----
(***************************************************************************)
(* A model of src/ffi_stubs.c: the bufferspec/callspec layout builder, the *)
(* call path (ctypes_call, ctypes_call_errno) and the closure path         *)
(* (ctypes_make_function_pointer, callback_handler).                       *)
(***************************************************************************)
EXTENDS Integers, Sequences, FiniteSets, TLC

(* ------------------------------ bounds -------------------------------- *)
\* Largest element size handed to the builder.
MaxSize == 2
\* Element alignments are 2^0 .. 2^MaxAlignLog.
MaxAlignLog == 2
\* The builder is explored while it holds fewer than MaxElems elements.
MaxElems == 2
\* Operations that extend the layout are explored while bytes < MaxBytes.
MaxBytes == 12
\* Inputs of the aligned_offset specification: offsets 0 .. MaxOffset.
MaxOffset == 40
\* errno takes the values 0 .. MaxErrno.
MaxErrno == 2
\* A binding chain has at most MaxChain Fn nodes before its Done node.
MaxChain == 3
\* At most MaxClosures closures are allocated.
MaxClosures == 1
\* realloc is explored failing at most MaxOom times on one builder.
MaxOom == 1
\* Native code runs at most MaxInv invocations of callback_handler at a time.
MaxInv == 2
\* The specification of storage growth explores builders of up to MaxGrow elements.
MaxGrow == 7

(* ------------------------- program constants -------------------------- *)
\* static const size_t increment_size = 8;
increment_size == 8
\* ffi_type_pointer.alignment and ffi_type_pointer.size / sizeof(void * )
pointer_alignment == 8
pointer_size == 8

(* ------------------------------ values -------------------------------- *)
RECURSIVE Pow2(_)
Pow2(k) ==
  IF k = 0 THEN 1 ELSE 2 * Pow2(k - 1)

\* The element sizes explored: the smallest and the largest.
Sizes == {1, MaxSize}
Alignments == { Pow2(k) : k \in 0..MaxAlignLog }

\* An ffi_type as far as this file reads it: its size and alignment.
ffi_type == [size : Sizes, alignment : Alignments]

\* The terminating null of the args array.
NULLT == [size |-> 0, alignment |-> 0]
\* A slot of the args array that realloc left indeterminate.
UNINIT == [size |-> -1, alignment |-> -1]
\* args == NULL.
NULL == << >>

\* enum { BUILDING, BUILDING_UNPASSABLE, STRUCTSPEC, STRUCTSPEC_UNPASSABLE, CALLSPEC }
BufferspecStates ==
  {"BUILDING", "BUILDING_UNPASSABLE", "STRUCTSPEC", "STRUCTSPEC_UNPASSABLE", "CALLSPEC"}

\* ffi_status values check_ffi_status distinguishes.
ffi_statuses == {"FFI_OK", "FFI_BAD_TYPEDEF", "FFI_BAD_ABI"}

\* The roffset of a fresh callspec: callspec_prototype holds -1, but
\* ctypes_allocate_callspec copies sizeof(struct callspec) bytes out of the
\* smaller bufferspec_prototype, so the field is whatever follows it in memory.
RoffsetInit == {-1, 0}

(* ------------------------------ state --------------------------------- *)
VARIABLES
  bytes,        \* bufferspec.bytes
  nelements,    \* bufferspec.nelements
  capacity,     \* bufferspec.capacity
  max_align,    \* bufferspec.max_align
  state,        \* bufferspec.state
  args,         \* bufferspec.args: NULL or an array of capacity slots
  roffset,      \* callspec.roffset
  cif_nargs,    \* callspec.cif: the argument count ffi_prep_cif stored, -1 before
  offsets,      \* the offset returned for each element held in args
  oom,          \* how many times realloc has failed on this builder
  ret,          \* how the last operation ended
  errno,        \* the thread's errno
  pc,           \* where ctypes_call stands: "idle", "argwriter", "ffi_call", "rvreader"
  call,         \* the locals of the running ctypes_call / ctypes_call_errno
  closures,     \* the closures ffi_closure_alloc handed out, in allocation order
  inv,          \* the running invocations of callback_handler
  ao_offset,    \* aligned_offset specification: the offset argument
  ao_alignment, \* aligned_offset specification: the alignment argument
  ao_result,    \* aligned_offset specification: the value returned, -1 before
  twin          \* history: the operations applied to the builder and what each returned

layout_vars == <<bytes, nelements, capacity, max_align, state, args, roffset, cif_nargs, offsets, oom>>
ao_vars == <<ao_offset, ao_alignment, ao_result>>
call_vars == <<errno, pc, call>>
tramp_vars == <<closures, inv>>
vars == <<layout_vars, ret, call_vars, tramp_vars, ao_vars, twin>>

(* ------------------------ how operations end -------------------------- *)
NoDesc == [size |-> -1, alignment |-> -1]

\* op: the stub called; pre: bufferspec.state when it was called;
\* status: "ok" (returned), "raise" (an OCaml exception), "abort" (a failed
\* assert or a crash: the process is gone); val: the int returned;
\* exn: the exception or the reason of the abort; desc: the type_info returned;
\* name: the function name a Unix_error carries.
Ret(op, pre, status, val, exn, desc) ==
  [op |-> op, pre |-> pre, status |-> status, val |-> val, exn |-> exn, desc |-> desc,
   name |-> << >>]

Returned(op, pre, val) == Ret(op, pre, "ok", val, "", NoDesc)
Raised(op, pre, exn) == Ret(op, pre, "raise", -1, exn, NoDesc)
Aborted(op, pre, why) == Ret(op, pre, "abort", -1, why, NoDesc)

\* A failed assert aborts the process: nothing runs afterwards.
Running == ret.status # "abort"

(* --------------------------- aligned_offset --------------------------- *)
\* aligned_offset rounding down instead of up.
aligned_offset_down(offset, alignment) ==
  offset - (offset % alignment)

\* static size_t aligned_offset(size_t offset, size_t alignment)
aligned_offset(offset, alignment) ==
  offset + (offset % alignment)

Max(a, b) ==
  IF a > b THEN a ELSE b

\* The adds that extend the layout are explored within the bounds; those that
\* fail their assert are always explored.
Growable ==
  state \in {"BUILDING", "BUILDING_UNPASSABLE"} =>
    IF twin.mode = "grow"
      THEN nelements < MaxGrow
      ELSE nelements < MaxElems /\ bytes < MaxBytes

(* --------------------- ctypes_add_unpassable_argument ----------------- *)
\* ctypes_add_unpassable_argument_ with bytes = offset, the size forgotten.
add_unpassable_argument_nosize(op, size, alignment) ==
  LET offset == aligned_offset(bytes, alignment) IN
  /\ state' = "BUILDING_UNPASSABLE"
  /\ args' = NULL
  /\ bytes' = offset
  /\ nelements' = nelements + 1
  /\ max_align' = Max(alignment, max_align)
  /\ offsets' = << >>
  /\ ret' = Returned(op, state, offset)
  /\ UNCHANGED <<capacity, roffset, cif_nargs, oom>>

\* The body of ctypes_add_unpassable_argument_ past its assert.
add_unpassable_argument_(op, size, alignment) ==
  LET offset == aligned_offset(bytes, alignment) IN
  /\ state' = "BUILDING_UNPASSABLE"
  /\ args' = NULL
  /\ bytes' = offset + size
  /\ nelements' = nelements + 1
  /\ max_align' = Max(alignment, max_align)
  /\ offsets' = << >>
  /\ ret' = Returned(op, state, offset)
  /\ UNCHANGED <<capacity, roffset, cif_nargs, oom>>

ctypes_add_unpassable_argument(size, alignment) ==
  /\ Running
  /\ pc = "idle"
  /\ Growable
  /\ IF state \in {"BUILDING", "BUILDING_UNPASSABLE"}
       THEN add_unpassable_argument_("add_unpassable_argument", size, alignment)
       ELSE /\ ret' = Aborted("add_unpassable_argument", state, "assert")
            /\ UNCHANGED layout_vars
  /\ UNCHANGED <<call_vars, tramp_vars, ao_vars>>

(* -------------------------- ctypes_add_argument ----------------------- *)
\* realloc_args handing out a new block without copying the old slots.
realloc_args_nocopy ==
  [i \in 1..(capacity + increment_size) |-> UNINIT]

\* realloc(args, (capacity + increment_size) * sizeof *args): the old slots
\* keep their contents, the new ones are indeterminate.
realloc_args ==
  args \o [i \in 1..increment_size |-> UNINIT]

\* args[nelements] = argtype; args[nelements + 1] = NULL (slots are 1-based here).
store_argument(a, argtype) ==
  [a EXCEPT ![nelements + 1] = argtype, ![nelements + 2] = NULLT]

ctypes_add_argument(argtype, realloc_fails) ==
  /\ Running
  /\ pc = "idle"
  /\ Growable
  /\ CASE state = "BUILDING" ->
            LET offset == aligned_offset(bytes, argtype.alignment)
                grow == nelements + 2 >= capacity
                a == IF grow THEN realloc_args ELSE args
            IN /\ realloc_fails => (grow /\ oom < MaxOom)
               /\ bytes' = offset + argtype.size
               /\ IF realloc_fails
                    THEN /\ ret' = Raised("add_argument", state, "Out_of_memory")
                         /\ oom' = oom + 1
                         /\ UNCHANGED <<nelements, capacity, max_align, state, args, offsets>>
                    ELSE IF nelements + 2 > Len(a)
                    THEN /\ ret' = Aborted("add_argument", state, "write past args")
                         /\ UNCHANGED <<nelements, capacity, max_align, state, args, offsets, oom>>
                    ELSE /\ args' = store_argument(a, argtype)
                         /\ oom' = oom
                         /\ capacity' = IF grow THEN capacity + increment_size ELSE capacity
                         /\ nelements' = nelements + 1
                         /\ max_align' = Max(argtype.alignment, max_align)
                         /\ offsets' = Append(offsets, offset)
                         /\ ret' = Returned("add_argument", state, offset)
                         /\ UNCHANGED state
               /\ UNCHANGED <<roffset, cif_nargs>>
       [] state = "BUILDING_UNPASSABLE" ->
            /\ ~realloc_fails
            /\ add_unpassable_argument_("add_argument", argtype.size, argtype.alignment)
       [] OTHER ->
            /\ ~realloc_fails
            /\ ret' = Aborted("add_argument", state, "assert")
            /\ UNCHANGED layout_vars
  /\ UNCHANGED <<call_vars, tramp_vars, ao_vars>>

(* ----------------------- ctypes_complete_structspec ------------------- *)
ctypes_complete_structspec(status) ==
  /\ Running
  /\ pc = "idle"
  /\ CASE state = "BUILDING" ->
            /\ IF status = "FFI_OK"
                 THEN /\ state' = "STRUCTSPEC"
                      /\ ret' = Ret("complete_structspec", state, "ok", -1, "",
                                    [size |-> -1, alignment |-> -1])
                 ELSE /\ ret' = Raised("complete_structspec", state, status)
                      /\ UNCHANGED state
            /\ UNCHANGED <<bytes, nelements, capacity, max_align, args, roffset, cif_nargs, offsets, oom>>
       [] state = "BUILDING_UNPASSABLE" ->
            /\ status = "FFI_OK"
            /\ ret' = Ret("complete_structspec", state, "ok", -1, "",
                          [size |-> aligned_offset(bytes, max_align), alignment |-> max_align])
            \* CAMLreturn(block) precedes the assignment of STRUCTSPEC_UNPASSABLE.
            /\ UNCHANGED layout_vars
       [] OTHER ->
            /\ status = "FFI_OK"
            /\ ret' = Aborted("complete_structspec", state, "assert")
            /\ UNCHANGED layout_vars
  /\ UNCHANGED <<call_vars, tramp_vars, ao_vars>>

(* --------------------------- ctypes_prep_callspec --------------------- *)
\* prep_reads_null for an ffi_prep_cif that never looks at the argument types.
prep_reads_null_never == FALSE

\* ffi_prep_cif reads args[0 .. nelements-1]: with args == NULL and
\* nelements > 0 that is a null dereference.
prep_reads_null == args = NULL /\ nelements > 0

\* ctypes_prep_callspec without the extra word after the return value space.
ctypes_prep_callspec_nopad(rffitype, status) ==
  /\ Running
  /\ pc = "idle"
  /\ bytes < MaxBytes
  /\ LET ro == aligned_offset(bytes, rffitype.alignment)
         b1 == ro + rffitype.size
         b2 == aligned_offset(b1, pointer_alignment)
     IN /\ roffset' = ro
        /\ bytes' = b2
        /\ IF prep_reads_null
             THEN /\ ret' = Aborted("prep_callspec", state, "null dereference")
                  /\ UNCHANGED <<state, cif_nargs>>
             ELSE IF status = "FFI_OK"
             THEN /\ state' = "CALLSPEC"
                  /\ cif_nargs' = nelements
                  /\ ret' = Returned("prep_callspec", state, 0)
             ELSE /\ ret' = Raised("prep_callspec", state, status)
                  /\ UNCHANGED <<state, cif_nargs>>
  /\ UNCHANGED <<nelements, capacity, max_align, args, offsets, oom>>
  /\ UNCHANGED <<call_vars, tramp_vars, ao_vars>>

ctypes_prep_callspec(rffitype, status) ==
  /\ Running
  /\ pc = "idle"
  /\ bytes < MaxBytes
  /\ LET ro == aligned_offset(bytes, rffitype.alignment)
         b1 == ro + rffitype.size
         b2 == aligned_offset(b1, pointer_alignment) + pointer_size
     IN /\ roffset' = ro
        /\ bytes' = b2
        /\ IF prep_reads_null
             THEN /\ ret' = Aborted("prep_callspec", state, "null dereference")
                  /\ UNCHANGED <<state, cif_nargs>>
             ELSE IF status = "FFI_OK"
             THEN /\ state' = "CALLSPEC"
                  /\ cif_nargs' = nelements
                  /\ ret' = Returned("prep_callspec", state, 0)
             ELSE /\ ret' = Raised("prep_callspec", state, status)
                  /\ UNCHANGED <<state, cif_nargs>>
  /\ UNCHANGED <<nelements, capacity, max_align, args, offsets, oom>>
  /\ UNCHANGED <<call_vars, tramp_vars, ao_vars>>


(* ------------------------ populate_callbuffer ------------------------- *)
\* The loop of populate_callbuffer from element i (1-based) at `offset':
\* the entries arg_array[i-1 ..], each as an offset from buf.
RECURSIVE populate_from(_, _)
populate_from(i, offset) ==
  IF i > nelements
    THEN << >>
    ELSE LET o == aligned_offset(offset, args[i].alignment)
         IN <<o>> \o populate_from(i + 1, o + args[i].size)

populate_callbuffer ==
  populate_from(1, 0)

\* compute_arg_buffer_size: *arg_array_offset
arg_array_offset_of(b) ==
  aligned_offset(b, pointer_alignment)

\* compute_arg_buffer_size: the size returned
compute_arg_buffer_size ==
  arg_array_offset_of(bytes) + nelements * pointer_size

(* ----------------------- ctypes_call, ctypes_call_errno --------------- *)
\* A function name: a string of nonzero characters.
Names == {<<1>>, <<1, 2>>}
\* What the native function leaves in the return slot and what rvreader returns.
RetVals == {0, 1}
ErrnoVals == 0..MaxErrno

\* strcpy(buffer, String_val(fnname)): the characters before the first NUL.
RECURSIVE strcpy(_)
strcpy(s) ==
  IF s = << >> \/ Head(s) = 0 THEN << >> ELSE <<Head(s)>> \o strcpy(Tail(s))

NoCall ==
  [checked |-> FALSE, fnname |-> << >>, roffset |-> -1, arg_array_offset |-> -1,
   size |-> -1, arg_array |-> << >>, trace |-> << >>, ffi_rvalue |-> -1,
   ffi_avalue |-> -1, native_errno |-> -1, rv |-> -1]

CallOp == IF call.checked THEN "call_errno" ELSE "call"

\* ctypes_call_errno: errno = 0; then ctypes_call up to caml_callback(argwriter):
\* the assert, compute_arg_buffer_size, alloca, populate_callbuffer.
call_enter(checked, fnname) ==
  /\ Running
  /\ pc = "idle"
  /\ errno' = IF checked THEN 0 ELSE errno
  /\ IF state # "CALLSPEC"
       THEN /\ ret' = Aborted(IF checked THEN "call_errno" ELSE "call", state, "assert")
            /\ call' = [NoCall EXCEPT !.checked = checked, !.fnname = fnname]
            /\ UNCHANGED pc
       ELSE /\ call' = [NoCall EXCEPT !.checked = checked,
                                      !.fnname = fnname,
                                      !.roffset = roffset,
                                      !.arg_array_offset = arg_array_offset_of(bytes),
                                      !.size = compute_arg_buffer_size,
                                      !.arg_array = populate_callbuffer,
                                      !.trace = <<"populate_callbuffer">>]
            /\ pc' = "argwriter"
            /\ UNCHANGED ret
  /\ UNCHANGED <<layout_vars, tramp_vars, ao_vars, twin>>

\* caml_callback(argwriter, buffer): OCaml code; it may leave any errno and may raise.
call_argwriter(e, raises) ==
  /\ Running
  /\ pc = "argwriter"
  /\ errno' = e
  /\ call' = [call EXCEPT !.trace = Append(@, "argwriter")]
  /\ IF raises
       THEN /\ pc' = "idle"
            /\ ret' = Raised(CallOp, state, "argwriter")
       ELSE /\ pc' = "ffi_call"
            /\ UNCHANGED ret
  /\ UNCHANGED <<layout_vars, tramp_vars, ao_vars, twin>>

\* call_ffi_call handing buffer, not buffer + roffset, as the return slot.
call_ffi_call_slot0(e) ==
  /\ Running
  /\ pc = "ffi_call"
  /\ errno' = e
  /\ call' = [call EXCEPT !.trace = Append(@, "ffi_call"),
                          !.ffi_rvalue = 0,
                          !.ffi_avalue = aligned_offset(bytes, pointer_alignment),
                          !.native_errno = e]
  /\ pc' = "rvreader"
  /\ UNCHANGED <<layout_vars, ret, tramp_vars, ao_vars, twin>>

\* ffi_call(&cif, cfunction, return_slot, buffer + aligned_offset(bytes, pointer alignment)):
\* the native function may leave any errno.
call_ffi_call(e) ==
  /\ Running
  /\ pc = "ffi_call"
  /\ errno' = e
  /\ call' = [call EXCEPT !.trace = Append(@, "ffi_call"),
                          !.ffi_rvalue = call.roffset,
                          !.ffi_avalue = aligned_offset(bytes, pointer_alignment),
                          !.native_errno = e]
  /\ pc' = "rvreader"
  /\ UNCHANGED <<layout_vars, ret, tramp_vars, ao_vars, twin>>

\* caml_callback(rvreader, return_slot), CAMLreturn, and in ctypes_call_errno
\* the test of errno that follows.
call_rvreader(e, r, raises) ==
  /\ Running
  /\ pc = "rvreader"
  /\ errno' = e
  /\ call' = [call EXCEPT !.trace = Append(@, "rvreader"), !.rv = r]
  /\ pc' = "idle"
  /\ ret' = IF raises
              THEN Raised(CallOp, state, "rvreader")
              ELSE IF call.checked /\ e # 0
              THEN [Raised(CallOp, state, "Unix_error") EXCEPT !.val = e,
                                                              !.name = strcpy(call.fnname)]
              ELSE Returned(CallOp, state, r)
  /\ UNCHANGED <<layout_vars, tramp_vars, ao_vars, twin>>

(* --------------------- ctypes_make_function_pointer ------------------- *)
\* A boxedfn chain: m Fn nodes, each step returning the next node, then Done.
\* A node is its position in the chain, the head being 0.
Chains == 0..MaxChain

Tag_val(chain, node) ==
  IF node < chain THEN "Fn" ELSE "Done"

ctypes_make_function_pointer(boxedfn, alloc_fails, status) ==
  /\ Running
  /\ pc = "idle"
  /\ Len(closures) < MaxClosures
  /\ IF state # "CALLSPEC"
       THEN /\ ret' = Aborted("make_function_pointer", state, "assert")
            /\ UNCHANGED closures
       ELSE IF alloc_fails
       THEN /\ ret' = Raised("make_function_pointer", state, "Out_of_memory")
            /\ UNCHANGED closures
       ELSE /\ closures' = Append(closures, [fn |-> boxedfn, rooted |-> TRUE,
                                             prepared |-> status = "FFI_OK"])
            /\ ret' = IF status = "FFI_OK"
                        THEN Returned("make_function_pointer", state, Len(closures) + 1)
                        ELSE Raised("make_function_pointer", state, status)
  /\ UNCHANGED <<layout_vars, call_vars, inv, ao_vars, twin>>

(* ----------------------------- callback_handler ----------------------- *)
Invocations == 1..MaxInv

NoInv ==
  [pc |-> "idle", closure |-> 0, arity |-> -1, i |-> -1, boxedfn |-> -1, log |-> << >>]

\* Native code calls the code address of closure c: arity = cif->nargs,
\* boxedfn = *user_data, i = 0.
handler_enter(k, c) ==
  /\ Running
  /\ inv[k].pc = "idle"
  /\ c \in 1..Len(closures)
  /\ closures[c].prepared
  /\ inv' = [inv EXCEPT ![k] = [pc |-> "loop", closure |-> c, arity |-> cif_nargs,
                                i |-> 0, boxedfn |-> 0, log |-> << >>]]
  /\ UNCHANGED <<layout_vars, ret, call_vars, closures, ao_vars, twin>>

\* handler_step keeping its cursor in the closure instead of a local: a step
\* moves the cursor of every invocation running through the same closure.
handler_step_shared(k) ==
  LET h == inv[k]
      chain == closures[h.closure].fn
      moved(j) == inv[j].pc = "loop" /\ inv[j].closure = h.closure
  IN
  /\ Running
  /\ h.pc = "loop"
  /\ IF h.i < h.arity
       THEN IF Tag_val(chain, h.boxedfn) = "Fn"
              THEN /\ inv' = [j \in Invocations |->
                               IF j = k
                                 THEN [h EXCEPT !.log = Append(@, [node |-> h.boxedfn, arg |-> h.i]),
                                                !.boxedfn = h.boxedfn + 1,
                                                !.i = h.i + 1]
                                 ELSE IF moved(j)
                                 THEN [inv[j] EXCEPT !.boxedfn = h.boxedfn + 1]
                                 ELSE inv[j]]
                   /\ UNCHANGED ret
              ELSE /\ ret' = Aborted("callback_handler", state, "assert")
                   /\ inv' = [inv EXCEPT ![k].pc = "aborted"]
       ELSE IF Tag_val(chain, h.boxedfn) = "Done"
              THEN /\ inv' = [inv EXCEPT ![k].log = Append(@, [node |-> h.boxedfn, arg |-> -1]),
                                         ![k].pc = "done"]
                   /\ UNCHANGED ret
              ELSE /\ ret' = Aborted("callback_handler", state, "assert")
                   /\ inv' = [inv EXCEPT ![k].pc = "aborted"]
  /\ UNCHANGED <<layout_vars, call_vars, closures, ao_vars, twin>>

\* handler_step with its asserts compiled out: Field(boxedfn, 0) is applied
\* whatever the tag.
handler_step_unchecked(k) ==
  LET h == inv[k]
  IN
  /\ Running
  /\ h.pc = "loop"
  /\ IF h.i < h.arity
       THEN inv' = [inv EXCEPT ![k].log = Append(@, [node |-> h.boxedfn, arg |-> h.i]),
                               ![k].boxedfn = h.boxedfn + 1,
                               ![k].i = h.i + 1]
       ELSE inv' = [inv EXCEPT ![k].log = Append(@, [node |-> h.boxedfn, arg |-> -1]),
                               ![k].pc = "done"]
  /\ UNCHANGED <<layout_vars, ret, call_vars, closures, ao_vars, twin>>

\* One caml_callback of the handler: the step of a Fn node on args[i], or the
\* handler of the Done node on ret.
handler_step(k) ==
  LET h == inv[k]
      chain == closures[h.closure].fn
  IN
  /\ Running
  /\ h.pc = "loop"
  /\ IF h.i < h.arity
       THEN IF Tag_val(chain, h.boxedfn) = "Fn"
              THEN /\ inv' = [inv EXCEPT ![k].log = Append(@, [node |-> h.boxedfn, arg |-> h.i]),
                                         ![k].boxedfn = h.boxedfn + 1,
                                         ![k].i = h.i + 1]
                   /\ UNCHANGED ret
              ELSE /\ ret' = Aborted("callback_handler", state, "assert")
                   /\ inv' = [inv EXCEPT ![k].pc = "aborted"]
       ELSE IF Tag_val(chain, h.boxedfn) = "Done"
              THEN /\ inv' = [inv EXCEPT ![k].log = Append(@, [node |-> h.boxedfn, arg |-> -1]),
                                         ![k].pc = "done"]
                   /\ UNCHANGED ret
              ELSE /\ ret' = Aborted("callback_handler", state, "assert")
                   /\ inv' = [inv EXCEPT ![k].pc = "aborted"]
  /\ UNCHANGED <<layout_vars, call_vars, closures, ao_vars, twin>>

\* callback_handler returns to the native caller.
handler_return(k) ==
  /\ Running
  /\ inv[k].pc = "done"
  /\ inv' = [inv EXCEPT ![k] = NoInv]
  /\ UNCHANGED <<layout_vars, ret, call_vars, closures, ao_vars, twin>>

(* ----------------------- ctypes_allocate_callspec --------------------- *)
\* The history kept for the specifications that compare runs, empty elsewhere.
\* mode: "free" (nothing is recorded), "first" / "second" (the first and the
\* second builder of a pair), "grow" (one builder, the adds that returned are
\* recorded); script: the adds that returned on the first builder;
\* first, second: the offset each of them returned on either builder;
\* final: the first builder when it was left.
NoTwin ==
  [mode |-> "free", script |-> << >>, first |-> << >>, second |-> << >>, final |-> << >>]

\* allocate_custom(&bufferspec_custom_ops, sizeof(struct callspec), &bufferspec_prototype):
\* the program goes on with a fresh builder.
ctypes_allocate_callspec ==
  /\ Running
  /\ pc = "idle"
  /\ bytes' = 0
  /\ nelements' = 0
  /\ capacity' = 0
  /\ max_align' = 0
  /\ state' = "BUILDING"
  /\ args' = NULL
  /\ roffset' \in RoffsetInit
  /\ cif_nargs' = -1
  /\ offsets' = << >>
  /\ oom' = 0
  /\ ret' = Ret("allocate_callspec", state, "ok", -1, "", NoDesc)
  /\ UNCHANGED <<call_vars, tramp_vars, ao_vars>>

(* ------------------------------- Init --------------------------------- *)
\* bufferspec_prototype = { 0, 0, 0, 0, BUILDING, NULL }
Init ==
  /\ bytes = 0
  /\ nelements = 0
  /\ capacity = 0
  /\ max_align = 0
  /\ state = "BUILDING"
  /\ args = NULL
  /\ roffset \in RoffsetInit
  /\ cif_nargs = -1
  /\ offsets = << >>
  /\ oom = 0
  /\ ret = Ret("none", "BUILDING", "ok", -1, "", NoDesc)
  /\ errno = 0
  /\ pc = "idle"
  /\ call = NoCall
  /\ closures = << >>
  /\ inv = [k \in Invocations |-> NoInv]
  /\ ao_offset = 0
  /\ ao_alignment = 1
  /\ ao_result = -1
  /\ twin = NoTwin

(* ------------------------- specification: layout ---------------------- *)
AddArgument ==
  /\ \E t \in ffi_type, f \in BOOLEAN : ctypes_add_argument(t, f)
  /\ UNCHANGED twin

AddUnpassableArgument ==
  /\ \E s \in Sizes, a \in Alignments : ctypes_add_unpassable_argument(s, a)
  /\ UNCHANGED twin

CompleteStructspec ==
  /\ \E st \in ffi_statuses : ctypes_complete_structspec(st)
  /\ UNCHANGED twin

\* The scalar types: size = alignment.
scalar_type == { [size |-> a, alignment |-> a] : a \in Alignments }

\* The return type is a scalar.
PrepScalarCallspec ==
  /\ \E t \in scalar_type, st \in ffi_statuses : ctypes_prep_callspec(t, st)
  /\ UNCHANGED twin

NextLayout ==
  \/ CompleteStructspec
  \/ PrepScalarCallspec
  \/ AddArgument
  \/ AddUnpassableArgument

SpecLayout == Init /\ [][NextLayout]_vars

(* --------------------- specification: the call path ------------------ *)
AddScalarArgument ==
  /\ \E t \in scalar_type, f \in BOOLEAN : ctypes_add_argument(t, f)
  /\ UNCHANGED twin

AddScalarUnpassableArgument ==
  /\ \E t \in scalar_type : ctypes_add_unpassable_argument(t.size, t.alignment)
  /\ UNCHANGED twin

Call ==
  \E checked \in BOOLEAN, fnname \in Names : call_enter(checked, fnname)

ArgWriter ==
  \E e \in ErrnoVals, raises \in BOOLEAN : call_argwriter(e, raises)

FfiCall ==
  \E e \in ErrnoVals : call_ffi_call(e)

RvReader ==
  \E e \in ErrnoVals, r \in RetVals, raises \in BOOLEAN : call_rvreader(e, r, raises)

NextCall ==
  \/ AddScalarArgument
  \/ PrepScalarCallspec
  \/ Call
  \/ ArgWriter
  \/ FfiCall
  \/ RvReader

SpecCall == Init /\ [][NextCall]_vars

(* --------------------- specification: the closure path ---------------- *)
\* Native code on any thread may call a code address at any time.
byte_type == [size |-> 1, alignment |-> 1]

AddByteArgument ==
  /\ ctypes_add_argument(byte_type, FALSE)
  /\ UNCHANGED twin

PrepByteCallspec ==
  /\ \E st \in ffi_statuses : ctypes_prep_callspec(byte_type, st)
  /\ UNCHANGED twin

MakeFunctionPointer ==
  \E boxedfn \in Chains, alloc_fails \in BOOLEAN, st \in ffi_statuses :
    ctypes_make_function_pointer(boxedfn, alloc_fails, st)

HandlerEnter ==
  \E k \in Invocations, c \in 1..MaxClosures : handler_enter(k, c)

HandlerStep ==
  \E k \in Invocations : handler_step(k)

HandlerReturn ==
  \E k \in Invocations : handler_return(k)

NextTramp ==
  \/ AddByteArgument
  \/ PrepByteCallspec
  \/ MakeFunctionPointer
  \/ HandlerEnter
  \/ HandlerStep
  \/ HandlerReturn

SpecTramp == Init /\ [][NextTramp]_vars

(* ------------------- specification: the whole program ----------------- *)
\* One thread: the builder and the call path as above; native code runs inside
\* ffi_call, where it may call the code addresses it was given, and ffi_call
\* returns once those calls have returned.
InNative == pc = "ffi_call"

NativeCallsBack ==
  /\ InNative
  /\ \E k \in Invocations, c \in 1..MaxClosures : handler_enter(k, c)

CallbackStep ==
  /\ InNative
  /\ \E k \in Invocations : handler_step(k)

CallbackReturn ==
  /\ InNative
  /\ \E k \in Invocations : handler_return(k)

FfiCallReturns ==
  /\ \A k \in Invocations : inv[k].pc = "idle"
  /\ \E e \in ErrnoVals : call_ffi_call(e)

Next ==
  \/ AddScalarArgument
  \/ AddScalarUnpassableArgument
  \/ CompleteStructspec
  \/ PrepScalarCallspec
  \/ Call
  \/ ArgWriter
  \/ FfiCallReturns
  \/ RvReader
  \/ MakeFunctionPointer
  \/ NativeCallsBack
  \/ CallbackStep
  \/ CallbackReturn

Spec == Init /\ [][Next]_vars

(* ---------------------- specification: aligned_offset ----------------- *)
InitAligned ==
  /\ bytes = 0
  /\ nelements = 0
  /\ capacity = 0
  /\ max_align = 0
  /\ state = "BUILDING"
  /\ args = NULL
  /\ roffset = -1
  /\ cif_nargs = -1
  /\ offsets = << >>
  /\ oom = 0
  /\ ret = Ret("none", "BUILDING", "ok", -1, "", NoDesc)
  /\ errno = 0
  /\ pc = "idle"
  /\ call = NoCall
  /\ closures = << >>
  /\ inv = [k \in Invocations |-> NoInv]
  /\ ao_offset \in 0..MaxOffset
  /\ ao_alignment \in Alignments
  /\ ao_result = -1
  /\ twin = NoTwin

ApplyAlignedOffset ==
  /\ ao_result = -1
  /\ ao_result' = aligned_offset(ao_offset, ao_alignment)
  /\ UNCHANGED <<layout_vars, ret, call_vars, tramp_vars, ao_offset, ao_alignment, twin>>

SpecAligned == InitAligned /\ [][ApplyAlignedOffset]_vars

(* ------------------- specification: a pair of builders ---------------- *)
\* A first builder receives adds of scalars; then a second builder is allocated
\* and receives, in the same order, the adds that returned on the first.
\* Whether realloc fails is the allocator's choice at every add, on either
\* builder; an add that raised Out_of_memory is not one of the sequence, and
\* on the second builder it is tried again.
InitPair ==
  /\ bytes = 0
  /\ nelements = 0
  /\ capacity = 0
  /\ max_align = 0
  /\ state = "BUILDING"
  /\ args = NULL
  /\ roffset \in RoffsetInit
  /\ cif_nargs = -1
  /\ offsets = << >>
  /\ oom = 0
  /\ ret = Ret("none", "BUILDING", "ok", -1, "", NoDesc)
  /\ errno = 0
  /\ pc = "idle"
  /\ call = NoCall
  /\ closures = << >>
  /\ inv = [k \in Invocations |-> NoInv]
  /\ ao_offset = 0
  /\ ao_alignment = 1
  /\ ao_result = -1
  /\ twin = [NoTwin EXCEPT !.mode = "first"]

Scripted(op, size, alignment) ==
  [op |-> op, size |-> size, alignment |-> alignment]

\* The history once an add has ended: a returned add is recorded, a raised one is not.
Recorded(t, op, size, alignment, r) ==
  IF r.status # "ok"
    THEN t
    ELSE IF t.mode = "second"
    THEN [t EXCEPT !.second = Append(@, r.val)]
    ELSE [t EXCEPT !.script = Append(@, Scripted(op, size, alignment)),
                   !.first = Append(@, r.val)]

FirstAddArgument ==
  /\ twin.mode = "first"
  /\ \E t \in scalar_type, f \in BOOLEAN :
       /\ ctypes_add_argument(t, f)
       /\ twin' = Recorded(twin, "add_argument", t.size, t.alignment, ret')

FirstAddUnpassableArgument ==
  /\ twin.mode = "first"
  /\ \E t \in scalar_type :
       /\ ctypes_add_unpassable_argument(t.size, t.alignment)
       /\ twin' = Recorded(twin, "add_unpassable_argument", t.size, t.alignment, ret')

SecondBuilder ==
  /\ twin.mode = "first"
  /\ twin.script # << >>
  /\ ctypes_allocate_callspec
  /\ twin' = [twin EXCEPT !.mode = "second",
                          !.final = [bytes |-> bytes, max_align |-> max_align, state |-> state]]

\* The add the second builder receives next.
NextScripted == twin.script[Len(twin.second) + 1]

SecondAddArgument ==
  /\ twin.mode = "second"
  /\ Len(twin.second) < Len(twin.script)
  /\ NextScripted.op = "add_argument"
  /\ \E f \in BOOLEAN :
       /\ ctypes_add_argument([size |-> NextScripted.size, alignment |-> NextScripted.alignment], f)
       /\ twin' = Recorded(twin, "add_argument", NextScripted.size, NextScripted.alignment, ret')

SecondAddUnpassableArgument ==
  /\ twin.mode = "second"
  /\ Len(twin.second) < Len(twin.script)
  /\ NextScripted.op = "add_unpassable_argument"
  /\ ctypes_add_unpassable_argument(NextScripted.size, NextScripted.alignment)
  /\ twin' = Recorded(twin, "add_unpassable_argument", NextScripted.size, NextScripted.alignment, ret')

NextPair ==
  \/ FirstAddArgument
  \/ FirstAddUnpassableArgument
  \/ SecondBuilder
  \/ SecondAddArgument
  \/ SecondAddUnpassableArgument

SpecPair == InitPair /\ [][NextPair]_vars

(* -------------------- specification: storage growth ------------------- *)
\* One builder receives adds of one-byte elements of two alignments until it
\* holds MaxGrow of them; realloc may fail.
InitGrow ==
  /\ bytes = 0
  /\ nelements = 0
  /\ capacity = 0
  /\ max_align = 0
  /\ state = "BUILDING"
  /\ args = NULL
  /\ roffset \in RoffsetInit
  /\ cif_nargs = -1
  /\ offsets = << >>
  /\ oom = 0
  /\ ret = Ret("none", "BUILDING", "ok", -1, "", NoDesc)
  /\ errno = 0
  /\ pc = "idle"
  /\ call = NoCall
  /\ closures = << >>
  /\ inv = [k \in Invocations |-> NoInv]
  /\ ao_offset = 0
  /\ ao_alignment = 1
  /\ ao_result = -1
  /\ twin = [NoTwin EXCEPT !.mode = "grow"]

small_type == {[size |-> 1, alignment |-> 1], [size |-> 1, alignment |-> 2]}

GrowAddArgument ==
  \E t \in small_type, f \in BOOLEAN :
    /\ ctypes_add_argument(t, f)
    /\ twin' = IF ret'.status = "ok"
                 THEN [twin EXCEPT !.script = Append(@, Scripted("add_argument", t.size, t.alignment))]
                 ELSE twin

SpecGrow == InitGrow /\ [][GrowAddArgument]_vars

(* ============================== claims ================================ *)

\* C1: every offset add_argument returned in state BUILDING is a multiple of
\* the alignment of the element it was returned for.
C1_OffsetsAligned ==
  \A i \in 1..Len(offsets) : offsets[i] % args[i].alignment = 0

\* C2: the byte ranges [offset, offset + size) of two elements added in state
\* BUILDING do not overlap: each offset is at or beyond the end of every
\* element added before it.
C2_NoOverlap ==
  \A i, j \in 1..Len(offsets) : i < j => offsets[i] + args[i].size <= offsets[j]

\* Two elements are held and padding separates them.
C2_Witness ==
  /\ state = "BUILDING"
  /\ Len(offsets) >= 2
  /\ offsets[2] > offsets[1] + args[1].size

\* The smallest multiple of alignment that is >= offset.
RoundUp(offset, alignment) ==
  CHOOSE v \in offset..(offset + alignment - 1) : v % alignment = 0

\* C3: aligned_offset(offset, alignment) is the smallest value >= offset that
\* is a multiple of alignment, for offset >= 0 and alignment a power of two.
C3_AlignUpIsRoundUp ==
  ao_result # -1 => ao_result = RoundUp(ao_offset, ao_alignment)

\* C4 as stated: add_argument in any state but BUILDING fails its assert and
\* leaves bytes, max_align, nelements and state as they were.
C4_Original ==
  [][\A t \in ffi_type, f \in BOOLEAN :
       (ret'.op = "add_argument" /\ state # "BUILDING" /\ ctypes_add_argument(t, f))
         => (ret'.status = "abort" /\ UNCHANGED <<bytes, max_align, nelements, state>>)]_vars

\* C4 amended: add_argument in STRUCTSPEC, STRUCTSPEC_UNPASSABLE or CALLSPEC
\* fails its assert and leaves bytes, max_align, nelements and state as they
\* were; in BUILDING_UNPASSABLE it is accepted and acts as
\* add_unpassable_argument with the type's size and alignment: it returns an
\* offset >= bytes, sets bytes to offset + size, counts the element, raises
\* max_align to the alignment and stays in BUILDING_UNPASSABLE.
C4_Amended ==
  [][\A t \in ffi_type, f \in BOOLEAN :
       (ret'.op = "add_argument" /\ ctypes_add_argument(t, f)) =>
         /\ state \in {"STRUCTSPEC", "STRUCTSPEC_UNPASSABLE", "CALLSPEC"}
              => (ret'.status = "abort" /\ UNCHANGED <<bytes, max_align, nelements, state>>)
         /\ state = "BUILDING_UNPASSABLE"
              => /\ ret'.status = "ok"
                 /\ ret'.val >= bytes
                 /\ bytes' = ret'.val + t.size
                 /\ nelements' = nelements + 1
                 /\ max_align' = Max(t.alignment, max_align)
                 /\ state' = "BUILDING_UNPASSABLE"]_vars

\* add_argument was called on a CALLSPEC and failed its assert.
C4_Witness ==
  ret.op = "add_argument" /\ ret.pre = "CALLSPEC" /\ ret.status = "abort"

\* C5: complete_structspec moves BUILDING to STRUCTSPEC and
\* BUILDING_UNPASSABLE to STRUCTSPEC_UNPASSABLE and fails its assert in any
\* other state; once it has returned a descriptor the state is neither
\* BUILDING nor BUILDING_UNPASSABLE.
C5_CompleteStruct ==
  ret.op = "complete_structspec" =>
    /\ (ret.pre = "BUILDING" /\ ret.status = "ok") => state = "STRUCTSPEC"
    /\ (ret.pre = "BUILDING_UNPASSABLE" /\ ret.status = "ok") => state = "STRUCTSPEC_UNPASSABLE"
    /\ ret.pre \notin {"BUILDING", "BUILDING_UNPASSABLE"} => ret.status = "abort"
    /\ ret.status = "ok" => state \notin {"BUILDING", "BUILDING_UNPASSABLE"}

\* C6: prep_callspec called in any state but BUILDING does not move the
\* callspec to CALLSPEC and changes neither bytes nor roffset.
C6_PrepOnlyFromBuilding ==
  [][\A t \in ffi_type \cup scalar_type, st \in ffi_statuses :
       (ctypes_prep_callspec(t, st) /\ state # "BUILDING")
         => (state' = state /\ bytes' = bytes /\ roffset' = roffset)]_vars

\* C7: once the callspec is in CALLSPEC no operation changes its state,
\* bytes, roffset, max_align, nelements or args.
C7_CallReadyImmutable ==
  [][state = "CALLSPEC"
       => UNCHANGED <<state, bytes, roffset, max_align, nelements, args>>]_vars

\* The order of the steps of one ctypes_call.
CallOrder == <<"populate_callbuffer", "argwriter", "ffi_call", "rvreader">>

IsPrefix(s, t) ==
  /\ Len(s) <= Len(t)
  /\ \A i \in 1..Len(s) : s[i] = t[i]

CallOps == {"call", "call_errno"}

\* C8: a ctypes_call on a CALLSPEC populates the pointer table, calls
\* argwriter, runs ffi_call with the return slot buffer + roffset and the
\* populated table, and calls rvreader, each once and in this order, and
\* returns what rvreader returned; on anything but a CALLSPEC it fails its
\* assert before any of them runs.
C8_InvokeOrder ==
  /\ IsPrefix(call.trace, CallOrder)
  /\ pc # "idle" => state = "CALLSPEC"
  /\ pc = "argwriter" => Len(call.trace) = 1
  /\ pc = "ffi_call" => Len(call.trace) = 2
  /\ pc = "rvreader" =>
       /\ Len(call.trace) = 3
       /\ call.ffi_rvalue = roffset
       /\ call.ffi_avalue = call.arg_array_offset
  /\ (pc = "idle" /\ ret.op \in CallOps /\ ret.status = "ok") =>
       /\ call.trace = CallOrder
       /\ call.ffi_rvalue = roffset
       /\ call.ffi_avalue = call.arg_array_offset
       /\ ret.val = call.rv
  /\ (ret.op \in CallOps /\ ret.status = "abort") =>
       /\ ret.pre # "CALLSPEC"
       /\ call.trace = << >>

\* A call with two arguments has returned.
C8_Witness ==
  /\ pc = "idle"
  /\ ret.op = "call"
  /\ ret.status = "ok"
  /\ nelements = 2
  /\ call.trace = CallOrder

\* C9: a ctypes_call_errno whose callbacks both returned returns rvreader's
\* result when the native call left errno at zero, and raises Unix_error with
\* the code E and the function name when the native call left errno at E # 0.
C9_OsErrorCheck ==
  (pc = "idle" /\ ret.op = "call_errno" /\ call.trace = CallOrder /\ ret.exn # "rvreader") =>
    IF call.native_errno = 0
      THEN ret.status = "ok" /\ ret.val = call.rv
      ELSE /\ ret.status = "raise"
           /\ ret.exn = "Unix_error"
           /\ ret.val = call.native_errno
           /\ ret.name = call.fnname

\* C10: an invocation of callback_handler for arity n applies the steps of n
\* Fn nodes, the i-th to argument i and taken from the node the step before
\* returned (the first from the chain's head), then the handler of the Done
\* node once, to ret; when the node is Done with arguments left, or Fn with
\* none left, it fails its assert and the Done handler is not applied.
C10_HandlerWalk ==
  \A k \in Invocations :
    LET h == inv[k]
        chain == closures[h.closure].fn
        binds == IF h.pc = "done" THEN Len(h.log) - 1 ELSE Len(h.log)
    IN h.pc # "idle" =>
         /\ binds = h.i
         /\ h.i <= h.arity
         /\ \A j \in 1..binds : h.log[j] = [node |-> j - 1, arg |-> j - 1]
         /\ h.pc = "done" =>
              /\ h.i = h.arity
              /\ chain = h.arity
              /\ h.log[h.arity + 1] = [node |-> h.arity, arg |-> -1]
         /\ h.pc = "aborted" =>
              /\ chain # h.arity
              /\ h.i = IF chain < h.arity THEN chain ELSE h.arity
              /\ \A j \in 1..Len(h.log) : h.log[j].arg # -1

\* An invocation for two arguments has applied its Done handler.
C10_Witness ==
  \E k \in Invocations : inv[k].pc = "done" /\ inv[k].arity = 2

\* What the claims compare of a builder at the end of a run.
Outcome ==
  [bytes |-> bytes, max_align |-> max_align, state |-> state]

C12_OpaqueStructSize ==
  (ret.op = "complete_structspec" /\ ret.pre = "BUILDING_UNPASSABLE" /\ ret.status = "ok") =>
    /\ ret.desc.alignment = max_align
    /\ ret.desc.size = RoundUp(bytes, max_align)

\* C13: in a ctypes_call on a CALLSPEC built by add_argument calls, the
\* pointer table populate_callbuffer fills has one entry per element, and
\* entry i is buffer + the offset add_argument returned for element i.
C13_TableMatchesOffsets ==
  call.trace # << >> =>
    /\ Len(call.arg_array) = Len(offsets)
    /\ \A i \in 1..Len(offsets) : call.arg_array[i] = offsets[i]

\* C14: during every ctypes_call the pointer table starts at an offset from
\* buffer that is a multiple of the pointer alignment and is >= bytes, the
\* buffer alloca returned holds that offset plus nelements pointers, and the
\* table handed to ffi_call is the one populate_callbuffer filled.
C14_TablePlacement ==
  pc # "idle" =>
    /\ call.arg_array_offset % pointer_alignment = 0
    /\ call.arg_array_offset >= bytes
    /\ call.size >= call.arg_array_offset + nelements * pointer_size
    /\ pc = "rvreader" => call.ffi_avalue = call.arg_array_offset

\* The args array holds the descriptors recorded in twin.script, in order,
\* then the terminating null.
ArgsAreTheAdded ==
  /\ Len(twin.script) = nelements
  /\ capacity >= nelements + 1
  /\ Len(args) = capacity
  /\ \A i \in 1..nelements :
       args[i] = [size |-> twin.script[i].size, alignment |-> twin.script[i].alignment]
  /\ args[nelements + 1] = NULLT

\* C15: in every BUILDING state holding n >= 1 elements added by
\* add_argument, capacity >= n + 1, args[0 .. n-1] are the added descriptors in
\* the order they were added and args[n] is the terminating null, also after
\* the array has grown; no add writes outside the array; and an add grows the
\* array only when nelements + 2 >= capacity.
C15_GrowthKeepsElements ==
  /\ []((state = "BUILDING" /\ nelements >= 1) => ArgsAreTheAdded)
  /\ [](ret.status # "abort")
  /\ [][capacity' # capacity => nelements + 2 >= capacity]_vars

\* The array has grown a second time and holds more elements than its
\* first allocation.
C15_Witness ==
  /\ state = "BUILDING"
  /\ capacity = 2 * increment_size
  /\ nelements = MaxGrow
  /\ args[1] # args[2]

\* The builder is opaque: its element list is discarded and its state is
\* none of BUILDING, STRUCTSPEC and CALLSPEC.
Discarded ==
  /\ state \in {"BUILDING_UNPASSABLE", "STRUCTSPEC_UNPASSABLE"}
  /\ args = NULL

C17_ReturnSlot ==
  [][\A t \in ffi_type \cup scalar_type, st \in ffi_statuses :
       (ret'.op = "prep_callspec" /\ ret'.status = "ok" /\ ctypes_prep_callspec(t, st)) =>
         /\ \A i \in 1..Len(offsets') : offsets'[i] + args'[i].size <= roffset'
         /\ bytes' >= roffset' + t.size + pointer_size]_vars

\* A callspec of two arguments is prepared, with padding before its return slot.
C17_Witness ==
  /\ ret.op = "prep_callspec"
  /\ ret.status = "ok"
  /\ state = "CALLSPEC"
  /\ Len(offsets) = 2
  /\ roffset > offsets[2] + args[2].size

\* C18: in ctypes_call_errno, errno is zero when the native call starts
\* (argwriter has run before the reset), and whether Unix_error is raised is
\* decided by the errno the native call left (rvreader runs after the test):
\* an errno left by argwriter or rvreader alone raises nothing.
C18_ErrnoWindow ==
  [][/\ (call.checked /\ pc = "ffi_call" /\ pc' = "rvreader") => errno = 0
     /\ (call.checked /\ pc = "rvreader" /\ pc' = "idle" /\ ret'.exn # "rvreader")
          => (ret'.exn = "Unix_error" <=> call.native_errno # 0)]_vars

C20_RetainOnlyOnSuccess ==
  /\ \A c \in 1..Len(closures) : closures[c].rooted /\ closures[c].prepared
  /\ (ret.op = "make_function_pointer" /\ ret.status = "ok") => ret.val = Len(closures)

====
